---- MODULE Spec2Model ----
(***************************************************************************)
(* GryazBot (src/bot.py): the poll lifecycle on top of the four SQLite     *)
(* relations members, scores, polls and poll_votes.                        *)
(*                                                                         *)
(* The state is the committed content of the database plus the wall clock. *)
(* A connection opened with `with closing(db()) as conn, conn:` commits on *)
(* exit; one opened with `with closing(db()) as conn:` is closed without a *)
(* commit, so the DML it ran is rolled back (Python's sqlite3 opens an     *)
(* implicit transaction before UPDATE/INSERT and close() discards it).     *)
(*                                                                         *)
(* Handlers are coroutines of one asyncio loop and the Application is      *)
(* built with the default sequential update processing, so the database   *)
(* statements of one handler between two awaits form one step (Spec).      *)
(* SpecConc splits on_vote into its individual storage operations.         *)
(***************************************************************************)
EXTENDS Integers, Sequences, FiniteSets, TLC

\* ---------------------------------------------------------------- bounds
MaxTime   == 3       \* the clock runs over 0..MaxTime
MaxPolls  == 2       \* Spec: rows the polls table may hold
MaxUsers  == 3       \* Spec: the roster handlers observe the users 1..MaxUsers, all human
MaxActors == 2       \* Spec: the users 1..MaxActors nominate, are nominated and vote
MaxRoster == 5       \* SpecRoster: the humans 1..k, k <= MaxRoster, are on the roster at startup
MaxVoters == 4       \* SpecRoster: the users 1..MaxVoters vote

Chats   == {1}
Bots    == {100}
Actors  == 1..MaxActors
Users   == 1..MaxUsers
Choices == {"plus", "minus"}

\* user.is_bot of a telegram user object
IsBot(u) == u \in Bots

VARIABLES
  TARGET_COOLDOWN,  \* int(os.environ.get("TARGET_COOLDOWN", "300")), read once at import
  VOTE_TIMEOUT,     \* int(os.environ.get("VOTE_TIMEOUT", "600")), 0 = disabled
  init_scores,      \* INIT_SCORES_MAP, by the user whose name matches a key
  now,              \* int(time.time())
  members,          \* table members: set of rows
  scores,           \* table scores: function <<chat_id, user_id>> -> score over its rows
  polls,            \* table polls: sequence indexed by the AUTOINCREMENT id
  poll_votes,       \* table poll_votes: set of rows
  pending,          \* poll id start_vote_for_target still has to store message_id for, 0 if none
  calls,            \* SpecConc: the on_vote calls in flight, by worker
  reply,            \* what the last handler told its caller
  ghost             \* per poll: its first committed resolution, when, and the score increments

config == <<TARGET_COOLDOWN, VOTE_TIMEOUT, init_scores>>
db     == <<members, scores, polls, poll_votes>>
vars   == <<config, now, db, pending, calls, reply, ghost>>

Max(a, b) == IF a >= b THEN a ELSE b

\* kind: the branch the handler took; poll: the poll it is about; n: the number
\* it reports (threshold, remaining seconds, rows); plus, minus: the tally a
\* vote message shows; notified: the message edit that follows the commit
\* went through
NoReply == [kind |-> "none", poll |-> 0, n |-> 0, plus |-> 0, minus |-> 0, notified |-> TRUE]
Reply(k, p, n, ok) == [NoReply EXCEPT !.kind = k, !.poll = p, !.n = n, !.notified = ok]

\* "(+{plus} / -{minus}, need {threshold})"
VoteReply(k, p, plus, minus, threshold, ok) ==
  [kind |-> k, poll |-> p, n |-> threshold, plus |-> plus, minus |-> minus, notified |-> ok]

\* ------------------------------------------------------------ members
MemberRow(chat, u) == [chat_id |-> chat, user_id |-> u, is_bot |-> IF IsBot(u) THEN 1 ELSE 0]

\* INSERT ... ON CONFLICT(chat_id, user_id) DO UPDATE
upsert_member(m, chat, u) ==
  {r \in m : ~(r.chat_id = chat /\ r.user_id = u)} \cup {MemberRow(chat, u)}

\* SELECT COUNT(*) FROM members WHERE chat_id=? AND is_bot=0
non_bot_member_count(m, chat) ==
  Cardinality({r \in m : r.chat_id = chat /\ r.is_bot = 0})

\* mutant: integer division, n // 2
CeilHalf_Floor(n) == n \div 2

\* mutant: a strict majority, n // 2 + 1
CeilHalf_Majority(n) == (n \div 2) + 1

\* math.ceil(n / 2)
CeilHalf(n) == IF n % 2 = 0 THEN n \div 2 ELSE (n \div 2) + 1

\* mutant: the threshold announced at the creation of the poll kept for its votes
Threshold_Frozen(m, chat) ==
  IF ghost = <<>> THEN Max(1, CeilHalf(non_bot_member_count(m, chat))) ELSE ghost[Len(ghost)].need

\* max(1, math.ceil(non_bot_member_count(chat) / 2))
Threshold(m, chat) == Max(1, CeilHalf(non_bot_member_count(m, chat)))

\* mutant: a strict comparison
Reaches_Strict(count, threshold) == count > threshold

\* if plus >= threshold / elif minus >= threshold
Reaches(count, threshold) == count >= threshold

\* mutant: the pass branch taken only when the minus votes are under the threshold
Passes_UnlessMinus(plus, minus, threshold) == Reaches(plus, threshold) /\ ~Reaches(minus, threshold)

\* the first branch: if plus >= threshold, whatever minus is
Passes(plus, minus, threshold) == Reaches(plus, threshold)

\* the second branch, tried when the first was not taken: elif minus >= threshold
Cancels(plus, minus, threshold) == Reaches(minus, threshold)

\* ------------------------------------------------------------- scores
HasScore(s, chat, u) == <<chat, u>> \in DOMAIN s
ScoreOf(s, chat, u) == IF HasScore(s, chat, u) THEN s[<<chat, u>>] ELSE 0

\* INSERT INTO scores VALUES(?,?,pts) ON CONFLICT DO UPDATE SET score=excluded.score
SetScore(s, chat, u, pts) ==
  [k \in DOMAIN s \cup {<<chat, u>>} |-> IF k = <<chat, u>> THEN pts ELSE s[k]]

\* mutant: DO UPDATE SET score=excluded.score
IncrementScore_Reset(s, chat, u) == SetScore(s, chat, u, 1)

\* INSERT INTO scores VALUES(?,?,1) ON CONFLICT DO UPDATE SET score=score+1
IncrementScore(s, chat, u) == SetScore(s, chat, u, ScoreOf(s, chat, u) + 1)

maybe_apply_init_score(s, chat, u) ==
  IF DOMAIN init_scores = {} THEN s
  ELSE IF u \in DOMAIN init_scores THEN SetScore(s, chat, u, init_scores[u])
  ELSE s

\* -------------------------------------------------------------- polls
PollIds == 1..Len(polls)

NewPoll(chat, target) ==
  [chat_id |-> chat, message_id |-> 0, target_user_id |-> target,
   plus_count |-> 0, minus_count |-> 0, closed |-> 0, expired |-> 0,
   created_at |-> now]

\* rows of: SELECT ... FROM polls WHERE chat_id=? AND target_user_id=?
PollsOf(chat, target) ==
  {p \in PollIds : polls[p].chat_id = chat /\ polls[p].target_user_id = target}

\* mutant: the open-poll lookup left out
HasOpenPoll_Skipped(chat, target) == FALSE

\* SELECT 1 FROM polls WHERE chat_id=? AND target_user_id=? AND closed=0 LIMIT 1
HasOpenPoll(chat, target) == \E p \in PollsOf(chat, target) : polls[p].closed = 0

\* the rows ORDER BY created_at DESC LIMIT 1 may return
LastPolls(chat, target) ==
  {p \in PollsOf(chat, target) :
     \A q \in PollsOf(chat, target) : polls[q].created_at <= polls[p].created_at}

\* mutant: elapsed <= TARGET_COOLDOWN
InCooldown_Inclusive(p) ==
  /\ polls[p].expired = 0
  /\ now - polls[p].created_at <= TARGET_COOLDOWN

\* mutant: the cooldown applied after an expired poll too
InCooldown_Expired(p) == now - polls[p].created_at < TARGET_COOLDOWN

\* if last and not last["expired"]: elapsed = now - created_at; elapsed < TARGET_COOLDOWN
InCooldown(p) ==
  /\ polls[p].expired = 0
  /\ now - polls[p].created_at < TARGET_COOLDOWN

\* mutant: the closed flag not looked at
IsClosed_Unchecked(p) == FALSE

\* mutant: only the expired flag looked at
IsClosed_ExpiredOnly(p) == polls[p].expired # 0

\* if not poll or poll["closed"]: return
IsClosed(p) == polls[p].closed # 0

\* mutant: a strict comparison
TimedOut_Strict(created_at, t) == VOTE_TIMEOUT > 0 /\ t - created_at > VOTE_TIMEOUT

\* VOTE_TIMEOUT > 0 and now - int(poll["created_at"]) >= VOTE_TIMEOUT
TimedOut(created_at, t) == VOTE_TIMEOUT > 0 /\ t - created_at >= VOTE_TIMEOUT

\* A write made on a connection that is closed without a commit
\* (`with closing(db()) as conn:`): the table keeps its committed content.
UncommittedWrite(committed, written) == committed

\* mutant: a failed message edit undoes the transaction before it
CommittedWrite_Reverted(before, written, notified) == IF notified THEN written ELSE before

\* A write made on a connection that commits (`with closing(db()) as conn, conn:`):
\* the block is left, and the commit made, before edit_message_text is
\* awaited, so the table holds what was written whether the edit goes through or not.
CommittedWrite(before, written, notified) == written

\* UPDATE polls SET closed=1, expired=1 WHERE id=?
MarkExpired(ps, p) == [ps EXCEPT ![p].closed = 1, ![p].expired = 1]

\* mutant: the UPDATE left out
MarkClosed_NotStored(ps, p) == ps

\* UPDATE polls SET closed=1 WHERE id=?
MarkClosed(ps, p) == [ps EXCEPT ![p].closed = 1]

\* UPDATE polls SET plus_count=?, minus_count=? WHERE id=?
SetCounts(ps, p, plus, minus) == [ps EXCEPT ![p].plus_count = plus, ![p].minus_count = minus]

\* SELECT SUM(vote='plus'), SUM(vote='minus') FROM poll_votes WHERE poll_id=?
CountVotes(vs, p, c) == Cardinality({r \in vs : r.poll_id = p /\ r.vote = c})

\* mutant: no primary key on poll_votes, the INSERT never fails
HasVoted_NoKey(vs, p, u) == FALSE

\* PRIMARY KEY(poll_id, voter_user_id): the INSERT raises IntegrityError
HasVoted(vs, p, u) == \E r \in vs : r.poll_id = p /\ r.voter_user_id = u

VoteRow(p, u, c) == [poll_id |-> p, voter_user_id |-> u, vote |-> c]

\* ghost: the threshold announced when poll p was created, its first committed
\* resolution and the time of it, and the score increments made for it
NewGhost(need) == [need |-> need, outcome |-> "open", ended_at |-> -1, incs |-> 0]
Resolved(g, p, how) ==
  IF g[p].outcome = "open" THEN [g EXCEPT ![p].outcome = how, ![p].ended_at = now] ELSE g
Incremented(g, p) == [g EXCEPT ![p].incs = @ + 1]

\* ------------------------------------------------------------- Init
\* <<TARGET_COOLDOWN, VOTE_TIMEOUT>> of Spec: a cooldown that outlasts the timeout,
\* so that both the cooldown and its exemption for expired polls decide starts
\* (SpecRoster runs a cooldown shorter than the timeout, as the defaults 300 and 600)
Configs == {<<3, 2>>}
Idle == [pc |-> "idle", poll_id |-> 0, voter |-> 0, vote |-> "plus",
         plus |-> 0, minus |-> 0, threshold |-> 0]
Workers == {1, 2}

Empty ==
  /\ now = 0
  /\ scores = <<>>
  /\ polls = <<>>
  /\ poll_votes = {}
  /\ pending = 0
  /\ calls = [w \in Workers |-> Idle]
  /\ reply = NoReply
  /\ ghost = <<>>

Init ==
  /\ \E cfg \in Configs : TARGET_COOLDOWN = cfg[1] /\ VOTE_TIMEOUT = cfg[2]
  /\ init_scores = <<>>
  /\ members = {}
  /\ Empty

\* ---------------------------------------------------------- actions
\* the wall clock advances between steps
Tick ==
  /\ now < MaxTime
  /\ now' = now + 1
  /\ reply' = NoReply
  /\ UNCHANGED <<config, db, pending, calls, ghost>>

\* start_vote_for_target up to the await of reply_text
start_vote_for_target(chat, nominator, target) ==
  /\ pending = 0
  /\ LET m1 == upsert_member(upsert_member(members, chat, nominator), chat, target)
         s1 == maybe_apply_init_score(maybe_apply_init_score(scores, chat, nominator), chat, target)
     IN /\ members' = m1
        /\ scores' = s1
        /\ IF HasOpenPoll(chat, target)
           THEN /\ reply' = Reply("already_open", 0, 0, TRUE)
                /\ UNCHANGED <<polls, pending, ghost>>
           ELSE \E last \in IF LastPolls(chat, target) = {} THEN {0} ELSE LastPolls(chat, target) :
                  IF last # 0 /\ InCooldown(last)
                  THEN /\ reply' = Reply("cooldown", last,
                                         TARGET_COOLDOWN - (now - polls[last].created_at), TRUE)
                       /\ UNCHANGED <<polls, pending, ghost>>
                  ELSE /\ polls' = Append(polls, NewPoll(chat, target))
                       /\ ghost' = Append(ghost, NewGhost(Threshold(m1, chat)))
                       /\ pending' = Len(polls) + 1
                       /\ reply' = Reply("created", Len(polls) + 1, Threshold(m1, chat), TRUE)
  /\ UNCHANGED <<config, now, poll_votes, calls>>

\* start_vote_for_target after reply_text returned: UPDATE polls SET message_id=?
\* (the message id is the poll's own number: one ballot message per poll)
store_message_id ==
  /\ pending # 0
  /\ polls' = [polls EXCEPT ![pending].message_id = pending]
  /\ pending' = 0
  /\ reply' = Reply("ballot", pending, 0, TRUE)
  /\ UNCHANGED <<config, now, members, scores, poll_votes, calls, ghost>>

\* on_vote: the callback of a ballot button
on_vote(poll_id, voter, vote, ok) ==
  /\ pending = 0
  /\ UNCHANGED <<config, now, members, pending, calls>>
  /\ IF poll_id \notin PollIds
     THEN /\ reply' = Reply("unknown", poll_id, 0, TRUE)
          /\ UNCHANGED <<polls, poll_votes, scores, ghost>>
     ELSE IF IsClosed(poll_id)
     THEN /\ reply' = Reply("resolved", poll_id, 0, TRUE)
          /\ UNCHANGED <<polls, poll_votes, scores, ghost>>
     ELSE IF TimedOut(polls[poll_id].created_at, now)
     THEN /\ polls' = CommittedWrite(polls, MarkExpired(polls, poll_id), ok)
          /\ ghost' = Resolved(ghost, poll_id, "expired")
          /\ reply' = Reply("timed_out", poll_id, 0, ok)
          /\ UNCHANGED <<poll_votes, scores>>
     ELSE IF HasVoted(poll_votes, poll_id, voter)
     THEN /\ reply' = Reply("duplicate", poll_id, 0, TRUE)
          /\ UNCHANGED <<polls, poll_votes, scores, ghost>>
     ELSE LET vs == poll_votes \cup {VoteRow(poll_id, voter, vote)}
              plus == CountVotes(vs, poll_id, "plus")
              minus == CountVotes(vs, poll_id, "minus")
              tallied == UncommittedWrite(polls, SetCounts(polls, poll_id, plus, minus))
              chat == polls[poll_id].chat_id
              target == polls[poll_id].target_user_id
              threshold == Threshold(members, chat)
          IN /\ poll_votes' = vs
             /\ IF Passes(plus, minus, threshold)
                THEN /\ polls' = CommittedWrite(tallied, MarkClosed(tallied, poll_id), ok)
                     /\ scores' = CommittedWrite(scores, IncrementScore(scores, chat, target), ok)
                     /\ ghost' = Incremented(Resolved(ghost, poll_id, "passed"), poll_id)
                     /\ reply' = VoteReply("passed", poll_id, plus, minus, threshold, ok)
                ELSE IF Cancels(plus, minus, threshold)
                THEN /\ polls' = CommittedWrite(tallied, MarkClosed(tallied, poll_id), ok)
                     /\ ghost' = Resolved(ghost, poll_id, "cancelled")
                     /\ reply' = VoteReply("cancelled", poll_id, plus, minus, threshold, ok)
                     /\ UNCHANGED scores
                ELSE /\ polls' = tallied
                     /\ reply' = VoteReply("progress", poll_id, plus, minus, threshold, ok)
                     /\ UNCHANGED <<scores, ghost>>

\* on_message: roster bookkeeping for the sender and the replied-to user (0: none)
on_message(chat, u, replied) ==
  /\ pending = 0
  /\ LET m1 == upsert_member(members, chat, u)
         s1 == maybe_apply_init_score(scores, chat, u)
     IN IF replied = 0
        THEN members' = m1 /\ scores' = s1
        ELSE /\ members' = upsert_member(m1, chat, replied)
             /\ scores' = maybe_apply_init_score(s1, chat, replied)
  /\ reply' = NoReply
  /\ UNCHANGED <<config, now, polls, poll_votes, pending, calls, ghost>>

\* on_chat_member: a membership update
on_chat_member(chat, u) ==
  /\ pending = 0
  /\ members' = upsert_member(members, chat, u)
  /\ scores' = maybe_apply_init_score(scores, chat, u)
  /\ reply' = NoReply
  /\ UNCHANGED <<config, now, polls, poll_votes, pending, calls, ghost>>

\* rows of: SELECT id, chat_id, message_id FROM polls WHERE closed=0 AND (? - created_at) >= ?
ExpiredRows == {p \in PollIds : polls[p].closed = 0 /\ now - polls[p].created_at >= VOTE_TIMEOUT}

\* UPDATE polls SET closed=1, expired=1 WHERE closed=0 AND (? - created_at) >= ?
ExpireBatch(ps) ==
  [p \in DOMAIN ps |->
     IF ps[p].closed = 0 /\ now - ps[p].created_at >= VOTE_TIMEOUT
     THEN [ps[p] EXCEPT !.closed = 1, !.expired = 1] ELSE ps[p]]

\* expire_polls: the job run_repeating schedules; its connection is closed
\* without a commit
expire_polls(ok) ==
  /\ VOTE_TIMEOUT > 0
  /\ ExpiredRows # {}
  /\ polls' = UncommittedWrite(polls, ExpireBatch(polls))
  /\ reply' = Reply("sweep", 0, Cardinality(ExpiredRows), ok)
  /\ UNCHANGED <<config, now, members, scores, poll_votes, pending, calls, ghost>>

\* One step of the program, its inputs drawn from: voters (who press a ballot
\* button), nominators and targets (who start polls), senders, replied (the
\* replied-to user of a message, 0: none) and joiners (membership updates);
\* edits (whether the message edit after a commit goes through); at most
\* maxPolls rows in polls.
Step(voters, nominators, targets, senders, replied, joiners, edits, maxPolls) ==
  \/ Tick
  \/ \E c \in Chats, a \in nominators, t \in targets :
       start_vote_for_target(c, a, t) /\ Len(polls') <= maxPolls
  \/ store_message_id
  \/ \E p \in 1..maxPolls, v \in voters, c \in Choices, ok \in edits : on_vote(p, v, c, ok)
  \/ \E c \in Chats, u \in senders, r \in replied : on_message(c, u, r)
  \/ \E c \in Chats, u \in joiners : on_chat_member(c, u)
  \/ \E ok \in edits : expire_polls(ok)

Next == Step(Actors, Actors, Actors, Actors, {0, MaxUsers}, Users, {TRUE}, MaxPolls)

Spec == Init /\ [][Next]_vars

\* ------------------------------------------------- a populated roster
\* The database file outlives the process (CREATE TABLE IF NOT EXISTS): the bot
\* starts on the roster of an earlier run, here the humans 1..k, and learns
\* of the humans Newcomers and of the bot later.
RosterOf(k) == {MemberRow(1, u) : u \in 1..k}
Newcomers == {MaxRoster + 1, MaxRoster + 2}

InitRoster ==
  /\ TARGET_COOLDOWN = 2 /\ VOTE_TIMEOUT = 3
  /\ init_scores = <<>>
  /\ \E k \in 0..MaxRoster : members = RosterOf(k)
  /\ Empty

NextRoster == Step(1..MaxVoters, {1}, {1}, {1}, {0} \cup Bots, Newcomers, BOOLEAN, 1)

SpecRoster == InitRoster /\ [][NextRoster]_vars

\* ------------------------------------------------------ a seed import
\* SpecSeed: INIT_SCORES names user 1 with SeedPoints points; the other users
\* match no key.
SeedPoints == 2      \* SpecSeed: the points INIT_SCORES gives user 1
Seeds == [u \in {1} |-> SeedPoints]

InitSeed ==
  /\ TARGET_COOLDOWN = 3 /\ VOTE_TIMEOUT = 2
  /\ init_scores = Seeds
  /\ members = {}
  /\ Empty

NextSeed == Step(Actors, Actors, Actors, Actors, {0}, Users, {TRUE}, MaxPolls)

SpecSeed == InitSeed /\ [][NextSeed]_vars

\* ------------------------------------- on_vote, one storage operation a step
\* SpecConc: on_vote calls run side by side (an Application built with
\* concurrent_updates, or two bot processes on one database file) and
\* interleave between any two of their database connections.

\* lines 338-345: SELECT * FROM polls WHERE id=?, then the clock
vote_read(w, poll_id, voter, vote) ==
  /\ calls[w].pc = "idle"
  /\ IF poll_id \notin PollIds
     THEN reply' = Reply("unknown", poll_id, 0, TRUE) /\ UNCHANGED calls
     ELSE IF IsClosed(poll_id)
     THEN reply' = Reply("resolved", poll_id, 0, TRUE) /\ UNCHANGED calls
     ELSE /\ calls' = [calls EXCEPT ![w] =
                         [Idle EXCEPT !.pc = IF TimedOut(polls[poll_id].created_at, now)
                                             THEN "expire" ELSE "insert",
                                      !.poll_id = poll_id, !.voter = voter, !.vote = vote]]
          /\ reply' = NoReply
  /\ UNCHANGED <<config, now, db, pending, ghost>>

\* lines 346-352: UPDATE polls SET closed=1, expired=1 WHERE id=?
vote_expire(w, ok) ==
  /\ calls[w].pc = "expire"
  /\ polls' = CommittedWrite(polls, MarkExpired(polls, calls[w].poll_id), ok)
  /\ ghost' = Resolved(ghost, calls[w].poll_id, "expired")
  /\ reply' = Reply("timed_out", calls[w].poll_id, 0, ok)
  /\ calls' = [calls EXCEPT ![w] = Idle]
  /\ UNCHANGED <<config, now, members, scores, poll_votes, pending>>

\* lines 355-360: INSERT INTO poll_votes
vote_insert(w) ==
  /\ calls[w].pc = "insert"
  /\ IF HasVoted(poll_votes, calls[w].poll_id, calls[w].voter)
     THEN /\ reply' = Reply("duplicate", calls[w].poll_id, 0, TRUE)
          /\ calls' = [calls EXCEPT ![w] = Idle]
          /\ UNCHANGED poll_votes
     ELSE /\ poll_votes' = poll_votes \cup {VoteRow(calls[w].poll_id, calls[w].voter, calls[w].vote)}
          /\ calls' = [calls EXCEPT ![w].pc = "tally"]
          /\ reply' = NoReply
  /\ UNCHANGED <<config, now, members, scores, polls, pending, ghost>>

\* lines 362-368: the tally, and its UPDATE on a connection that never commits
vote_tally(w) ==
  /\ calls[w].pc = "tally"
  /\ LET plus == CountVotes(poll_votes, calls[w].poll_id, "plus")
         minus == CountVotes(poll_votes, calls[w].poll_id, "minus")
     IN /\ polls' = UncommittedWrite(polls, SetCounts(polls, calls[w].poll_id, plus, minus))
        /\ calls' = [calls EXCEPT ![w].pc = "quorum", ![w].plus = plus, ![w].minus = minus]
  /\ reply' = NoReply
  /\ UNCHANGED <<config, now, members, scores, poll_votes, pending, ghost>>

\* line 370: the threshold from the roster
vote_quorum(w) ==
  /\ calls[w].pc = "quorum"
  /\ calls' = [calls EXCEPT ![w].pc = "resolve",
                            ![w].threshold = Threshold(members, polls[calls[w].poll_id].chat_id)]
  /\ reply' = NoReply
  /\ UNCHANGED <<config, now, db, pending, ghost>>

\* lines 371-398: the pass or the cancel, each in one committed transaction
vote_resolve(w, ok) ==
  /\ calls[w].pc = "resolve"
  /\ LET poll_id == calls[w].poll_id
         chat == polls[poll_id].chat_id
         target == polls[poll_id].target_user_id
         plus == calls[w].plus
         minus == calls[w].minus
         threshold == calls[w].threshold
     IN IF Passes(plus, minus, threshold)
        THEN /\ polls' = CommittedWrite(polls, MarkClosed(polls, poll_id), ok)
             /\ scores' = CommittedWrite(scores, IncrementScore(scores, chat, target), ok)
             /\ ghost' = Incremented(Resolved(ghost, poll_id, "passed"), poll_id)
             /\ reply' = VoteReply("passed", poll_id, plus, minus, threshold, ok)
        ELSE IF Cancels(plus, minus, threshold)
        THEN /\ polls' = CommittedWrite(polls, MarkClosed(polls, poll_id), ok)
             /\ ghost' = Resolved(ghost, poll_id, "cancelled")
             /\ reply' = VoteReply("cancelled", poll_id, plus, minus, threshold, ok)
             /\ UNCHANGED scores
        ELSE /\ reply' = VoteReply("progress", poll_id, plus, minus, threshold, ok)
             /\ UNCHANGED <<polls, scores, ghost>>
  /\ calls' = [calls EXCEPT ![w] = Idle]
  /\ UNCHANGED <<config, now, members, poll_votes, pending>>

InitConc ==
  /\ TARGET_COOLDOWN = 3 /\ VOTE_TIMEOUT = 2
  /\ init_scores = <<>>
  /\ members = {}
  /\ Empty

NextConc ==
  \/ Tick
  \/ start_vote_for_target(1, 1, 1) /\ Len(polls') <= 1
  \/ store_message_id
  \/ \E w \in Workers, v \in Actors, c \in Choices : vote_read(w, 1, v, c)
  \/ \E w \in Workers : vote_expire(w, TRUE)
  \/ \E w \in Workers : vote_insert(w)
  \/ \E w \in Workers : vote_tally(w)
  \/ \E w \in Workers : vote_quorum(w)
  \/ \E w \in Workers : vote_resolve(w, TRUE)
  \/ on_message(1, 1, 0)
  \/ \E u \in Users : on_chat_member(1, u)
  \/ expire_polls(TRUE)

SpecConc == InitConc /\ [][NextConc]_vars

\* ================================================================ claims
VotedOn(p, v) == \E r \in poll_votes : r.poll_id = p /\ r.voter_user_id = v
SameTally(p) ==
  /\ polls'[p].plus_count = polls[p].plus_count
  /\ polls'[p].minus_count = polls[p].minus_count
SameStatus(p) ==
  /\ polls'[p].closed = polls[p].closed
  /\ polls'[p].expired = polls[p].expired
Overdue(p) == VOTE_TIMEOUT > 0 /\ now - polls[p].created_at >= VOTE_TIMEOUT
UniqueVotes ==
  \A r1, r2 \in poll_votes :
    (r1.poll_id = r2.poll_id /\ r1.voter_user_id = r2.voter_user_id) => r1 = r2

\* C1 as stated: at most one vote row per (poll_id, voter_user_id), and any
\* later CastVote by a voter who already voted on the poll adds no row and
\* leaves the poll's plus_count, minus_count and status unchanged.
C1_Original ==
  /\ []UniqueVotes
  /\ [][\A p \in PollIds, v \in Actors, c \in Choices, ok \in BOOLEAN :
          (VotedOn(p, v) /\ reply'.poll = p /\ on_vote(p, v, c, ok)) =>
             /\ poll_votes' = poll_votes
             /\ SameTally(p)
             /\ SameStatus(p)]_vars

\* C1 (amended): at most one vote row per (poll_id, voter_user_id); a later
\* CastVote by a voter who already voted on the poll never adds a row nor
\* changes plus_count, minus_count or a score; while the poll is open and
\* younger than vote_timeout it is rejected as a duplicate and changes no
\* poll, and on an open poll that has reached vote_timeout it is rejected as
\* timed out and expires the poll.
C1_OneVotePerVoter ==
  /\ []UniqueVotes
  /\ [][\A p \in PollIds, v \in Actors, c \in Choices, ok \in BOOLEAN :
          (VotedOn(p, v) /\ reply'.poll = p /\ on_vote(p, v, c, ok)) =>
             /\ poll_votes' = poll_votes
             /\ SameTally(p)
             /\ scores' = scores
             /\ (polls[p].closed = 0 /\ ~Overdue(p)) =>
                   (reply'.kind = "duplicate" /\ polls' = polls)
             /\ (polls[p].closed = 0 /\ Overdue(p)) =>
                   (reply'.kind = "timed_out" /\ polls'[p].expired = 1)
             /\ polls[p].closed = 1 => polls' = polls]_vars

\* a duplicate vote was just rejected on a poll that is still open
C1_Witness ==
  /\ reply.kind = "duplicate"
  /\ polls[reply.poll].closed = 0
  /\ \E r \in poll_votes : r.poll_id = reply.poll

\* C2: once a poll is stored closed (passed, cancelled or expired) no step
\* changes its closed and expired flags, its plus_count or its minus_count.
C2_TerminalIsFinal ==
  [][\A p \in PollIds :
       polls[p].closed = 1 =>
          /\ p \in DOMAIN polls'
          /\ SameStatus(p)
          /\ SameTally(p)]_vars

\* a vote arrived on a poll that was already closed, and was ignored
C2_Witness ==
  /\ reply.kind = "resolved"
  /\ polls[reply.poll].closed = 1
  /\ ghost[reply.poll].outcome # "open"

\* the replies of start_vote_for_target up to its await
StartReplies == {"already_open", "cooldown", "created"}

OneOpenPerTarget ==
  \A p, q \in PollIds :
    (/\ p # q
     /\ polls[p].chat_id = polls[q].chat_id
     /\ polls[p].target_user_id = polls[q].target_user_id
     /\ polls[p].closed = 0) => polls[q].closed # 0

\* C5: at most one open poll per (chat_id, target_user_id); a StartPoll
\* against a target with an open poll in the chat is rejected and creates no
\* poll, whoever the nominator is.
C5_OneOpenPollPerTarget ==
  /\ []OneOpenPerTarget
  /\ [][\A c \in Chats, a \in Actors, t \in Actors :
          (/\ \E p \in PollIds : /\ polls[p].chat_id = c
                                 /\ polls[p].target_user_id = t
                                 /\ polls[p].closed = 0
           /\ reply'.kind \in StartReplies
           /\ start_vote_for_target(c, a, t)) =>
             /\ polls' = polls
             /\ reply'.kind = "already_open"]_vars

\* a nomination was just rejected because the target has an open poll
C5_Witness ==
  /\ reply.kind = "already_open"
  /\ \E p \in PollIds : polls[p].closed = 0

\* C6 as stated: after a sweeper tick every poll that was open with
\* age >= vote_timeout is stored closed and expired.
C6_SweepStoresExpiry ==
  [][\A ok \in BOOLEAN :
       expire_polls(ok) =>
          \A p \in PollIds :
            (polls[p].closed = 0 /\ Overdue(p)) =>
               (polls'[p].closed = 1 /\ polls'[p].expired = 1)]_vars

\* C7: a CastVote on an open poll with now - created_at >= vote_timeout > 0
\* is rejected as timed out, records no vote, stores the poll as expired and
\* leaves its plus_count, minus_count and every score unchanged.
C7_LazyExpiry ==
  [][\A p \in PollIds, v \in Actors, c \in Choices, ok \in BOOLEAN :
       (polls[p].closed = 0 /\ Overdue(p) /\ reply'.poll = p /\ on_vote(p, v, c, ok)) =>
          /\ reply'.kind = "timed_out"
          /\ poll_votes' = poll_votes
          /\ polls'[p].closed = 1
          /\ polls'[p].expired = 1
          /\ SameTally(p)
          /\ scores' = scores]_vars

\* a vote was just rejected as timed out on a poll that holds earlier votes
C7_Witness ==
  /\ reply.kind = "timed_out"
  /\ polls[reply.poll].expired = 1
  /\ \E r \in poll_votes : r.poll_id = reply.poll

\* the most recent poll against target t in chat c, if any
Latest(c, t) ==
  {p \in PollIds : /\ polls[p].chat_id = c /\ polls[p].target_user_id = t
                   /\ \A q \in PollIds :
                        (polls[q].chat_id = c /\ polls[q].target_user_id = t) => q <= p}

C9_NoCooldownAfterExpiry ==
  [][\A c \in Chats, a \in Actors, t \in Actors, p \in PollIds :
       (/\ p \in Latest(c, t)
        /\ polls[p].closed = 1
        /\ polls[p].expired = 1
        /\ reply'.kind \in StartReplies
        /\ start_vote_for_target(c, a, t)) =>
          /\ reply'.kind = "created"
          /\ Len(polls') = Len(polls) + 1]_vars

\* poll 2 was just created in the second poll 1 against the same target
\* expired, inside what would be poll 1's cooldown
C9_Witness ==
  /\ reply.kind = "created"
  /\ reply.poll = 2
  /\ polls[1].target_user_id = polls[2].target_user_id
  /\ polls[1].expired = 1
  /\ polls[2].created_at = ghost[1].ended_at
  /\ polls[2].created_at - polls[1].created_at < TARGET_COOLDOWN

\* the humans on the roster of chat c, by who they are
HumansOf(c) == {r \in members : r.chat_id = c /\ r.user_id \notin Bots}

\* q is half of n rounded up, and at least 1
IsQuorum(q, n) == q >= 1 /\ 2 * q >= n /\ (q = 1 \/ 2 * (q - 1) < n)
QuorumOf(n) == CHOOSE q \in 1..(n + 1) : IsQuorum(q, n)

\* C4: an accepted first vote that brings the number of plus votes to the
\* quorum closes the poll (not expired) and adds exactly 1 to the target's
\* score in the same step, creating the row with 1 if there was none; while
\* plus and minus votes both stay under the quorum the poll stays open and no
\* score changes.
C4_PassOnQuorum ==
  [][\A p \in PollIds, v \in 1..MaxVoters, c \in Choices, ok \in BOOLEAN :
       (/\ polls[p].closed = 0
        /\ ~Overdue(p)
        /\ ~VotedOn(p, v)
        /\ reply'.poll = p
        /\ on_vote(p, v, c, ok)) =>
          LET chat == polls[p].chat_id
              target == polls[p].target_user_id
              q == QuorumOf(Cardinality(HumansOf(chat)))
              plus == Cardinality({r \in poll_votes' : r.poll_id = p /\ r.vote = "plus"})
              minus == Cardinality({r \in poll_votes' : r.poll_id = p /\ r.vote = "minus"})
          IN /\ poll_votes' = poll_votes \cup {[poll_id |-> p, voter_user_id |-> v, vote |-> c]}
             /\ plus >= q =>
                  /\ polls'[p].closed = 1
                  /\ polls'[p].expired = 0
                  /\ <<chat, target>> \in DOMAIN scores'
                  /\ scores'[<<chat, target>>] =
                       (IF <<chat, target>> \in DOMAIN scores THEN scores[<<chat, target>>] ELSE 0) + 1
                  /\ \A k \in DOMAIN scores' \ {<<chat, target>>} :
                       k \in DOMAIN scores /\ scores'[k] = scores[k]
                  /\ ghost'[p].incs = 1
             /\ (plus < q /\ minus < q) =>
                  /\ polls'[p].closed = 0
                  /\ scores' = scores]_vars

\* the scenario of the claim: 5 humans on the roster, three plus votes and
\* one minus vote, the last plus vote passed the poll at quorum 3 and the
\* target's score is 1, added once
C4_Witness ==
  /\ reply.kind = "passed"
  /\ reply.n = 3
  /\ Cardinality(HumansOf(1)) = 5
  /\ Cardinality({r \in poll_votes : r.poll_id = reply.poll /\ r.vote = "plus"}) = 3
  /\ Cardinality({r \in poll_votes : r.poll_id = reply.poll /\ r.vote = "minus"}) = 1
  /\ scores[<<1, polls[reply.poll].target_user_id>>] = 1
  /\ ghost[reply.poll].incs = 1

\* the replies that carry the threshold: poll creation and vote evaluation
QuorumReplies == {"created", "passed", "cancelled", "progress"}

\* C10: the threshold used at poll creation and at every vote evaluation is
\* max(1, ceil(N/2)) for N the humans on the chat's roster, bots not counted:
\* 1 for N = 0, 1, 2; 2 for N = 3, 4; 4 for N = 7.
C10_QuorumHalfRoundedUp ==
  /\ Threshold({}, 1) = 1
  /\ reply.kind \in QuorumReplies =>
       LET n == Cardinality(HumansOf(polls[reply.poll].chat_id))
       IN /\ IsQuorum(reply.n, n)
          /\ n \in {1, 2} => reply.n = 1
          /\ n \in {3, 4} => reply.n = 2
          /\ n = 7 => reply.n = 4

\* a vote was just evaluated against 4, with 7 humans and a bot on the roster
C10_Witness ==
  /\ reply.kind = "progress"
  /\ reply.n = 4
  /\ Cardinality(HumansOf(1)) = 7
  /\ \E r \in members : r.is_bot = 1

\* C3 as stated: under any interleaving of the storage operations of
\* concurrent CastVote calls and sweeper ticks on a poll, the target's score
\* is incremented at most once for that poll, and a poll first stored as
\* passed or cancelled is never afterwards stored as expired.
C3_SingleResolution ==
  \A p \in PollIds :
    /\ ghost[p].incs <= 1
    /\ ghost[p].outcome \in {"passed", "cancelled"} => polls[p].expired = 0

\* the steps in which a handler observes user u in chat c
Observes(c, u) ==
  \/ \E r \in {0} \cup Users : on_message(c, u, r)
  \/ \E a \in Users \ {u} : on_message(c, a, u)
  \/ on_chat_member(c, u)
  \/ \E t \in Actors : start_vote_for_target(c, u, t)
  \/ \E a \in Actors : start_vote_for_target(c, a, u)

\* C11 as stated: the seed overwrites a user's score only the first time the
\* user is observed in a chat; any later observation of a user who is already
\* on the chat's roster leaves that user's score unchanged.
C11_SeedAppliedOnce ==
  [][\A c \in Chats, u \in Users :
       (/\ \E r \in members : r.chat_id = c /\ r.user_id = u
        /\ reply'.kind \in {"none"} \cup StartReplies
        /\ Observes(c, u)) =>
          /\ (<<c, u>> \in DOMAIN scores') = (<<c, u>> \in DOMAIN scores)
          /\ <<c, u>> \in DOMAIN scores => scores'[<<c, u>>] = scores[<<c, u>>]]_vars

\* C12 as stated: the stored plus_count and minus_count of every poll equal
\* the number of its vote rows with value plus and minus.
C12_TallyPersisted ==
  \A p \in PollIds :
    /\ polls[p].plus_count = Cardinality({r \in poll_votes : r.poll_id = p /\ r.vote = "plus"})
    /\ polls[p].minus_count = Cardinality({r \in poll_votes : r.poll_id = p /\ r.vote = "minus"})

\* C13: a vote row is only ever added for a poll that is stored open; a
\* CastVote on a poll stored closed (passed, cancelled or expired) or on an
\* unknown poll id adds no vote row and changes no table.
C13_VotesOnlyWhileOpen ==
  [][/\ \A r \in poll_votes' \ poll_votes :
          r.poll_id \in PollIds /\ polls[r.poll_id].closed = 0
     /\ \A p \in 1..MaxPolls, v \in Actors, c \in Choices, ok \in BOOLEAN :
          (/\ (p \notin PollIds \/ polls[p].closed = 1)
           /\ reply'.poll = p
           /\ on_vote(p, v, c, ok)) =>
             /\ reply'.kind \in {"unknown", "resolved"}
             /\ db' = db]_vars

\* a vote was just ignored on a poll that had been cancelled by earlier votes
C13_Witness ==
  /\ reply.kind = "resolved"
  /\ ghost[reply.poll].outcome = "cancelled"
  /\ polls[reply.poll].closed = 1
  /\ Cardinality({r \in poll_votes : r.poll_id = reply.poll}) = 1

\* C14: when the tally an accepted vote is evaluated with has both
\* plus >= threshold and minus >= threshold, the call takes the pass branch:
\* it stores the poll closed, answers passed (not cancelled) and adds 1 to the
\* target's score.
C14_PlusBeforeMinus ==
  [][\A w \in Workers :
       (/\ calls[w].pc = "resolve"
        /\ calls[w].plus >= calls[w].threshold
        /\ calls[w].minus >= calls[w].threshold
        /\ calls'[w].pc = "idle"
        /\ vote_resolve(w, TRUE)) =>
          LET p == calls[w].poll_id
              k == <<polls[p].chat_id, polls[p].target_user_id>>
          IN /\ reply'.kind = "passed"
             /\ polls'[p].closed = 1
             /\ k \in DOMAIN scores'
             /\ scores'[k] = (IF k \in DOMAIN scores THEN scores[k] ELSE 0) + 1]_vars

\* a call just passed a poll on a tally with plus and minus both at the threshold
C14_Witness ==
  /\ reply.kind = "passed"
  /\ reply.plus >= reply.n
  /\ reply.minus >= reply.n
  /\ polls[reply.poll].closed = 1

\* the replies of an evaluated vote
VoteReplies == {"passed", "cancelled", "progress"}

\* C15: whenever an accepted vote is evaluated, plus >= threshold and
\* minus >= threshold hold together only if the threshold is at most 1.
C15_BothOnlyAtQuorumOne ==
  reply.kind \in VoteReplies =>
    ((reply.plus >= reply.n /\ reply.minus >= reply.n) => reply.n <= 1)

\* a vote was just evaluated at a threshold above 1 that the roster grew to
\* after the poll was created, with plus and minus votes both present
C15_Witness ==
  /\ reply.kind \in VoteReplies
  /\ reply.n >= 2
  /\ reply.plus >= 1
  /\ reply.minus >= reply.n
  /\ ghost[reply.poll].need < reply.n

\* C16: an accepted vote is evaluated against the quorum of the roster as it
\* is when the vote is processed: the threshold it reports is that quorum,
\* and the poll is closed by the vote exactly when the plus or the minus votes
\* reach it, whatever the threshold announced at the creation of the poll.
C16_QuorumFromCurrentRoster ==
  [][\A p \in PollIds, v \in 1..MaxVoters, c \in Choices, ok \in BOOLEAN :
       (/\ polls[p].closed = 0
        /\ ~Overdue(p)
        /\ ~VotedOn(p, v)
        /\ reply'.poll = p
        /\ on_vote(p, v, c, ok)) =>
          LET q == QuorumOf(Cardinality(HumansOf(polls[p].chat_id)))
              plus == Cardinality({r \in poll_votes' : r.poll_id = p /\ r.vote = "plus"})
              minus == Cardinality({r \in poll_votes' : r.poll_id = p /\ r.vote = "minus"})
          IN /\ reply'.n = q
             /\ (polls'[p].closed = 1) = (plus >= q \/ minus >= q)
             /\ (reply'.kind = "progress") = (plus < q /\ minus < q)]_vars

\* the scenario of the claim: announced threshold 2 (roster 3), the roster
\* grew to 5, and the second plus vote left the poll open, 2 < 3
C16_Witness ==
  /\ reply.kind = "progress"
  /\ reply.plus = 2
  /\ reply.n = 3
  /\ ghost[reply.poll].need = 2
  /\ Cardinality(HumansOf(1)) = 5
  /\ polls[reply.poll].closed = 0

\* C17 as stated: a StartPoll rejected because a poll is open or because of
\* the cooldown leaves every poll, vote and score row unchanged.
C17_RejectedStartChangesNothing ==
  [][reply'.kind \in {"already_open", "cooldown"} =>
       /\ polls' = polls
       /\ poll_votes' = poll_votes
       /\ scores' = scores]_vars

\* C18: when the message edit after a committed pass, cancel or expiry fails,
\* the poll is stored closed (and expired, for an expiry) and, for a pass, the
\* score holds the increment; afterwards a resolved poll is never stored open
\* again and the score of a passed poll's target stays at 1 or more.
C18_FailedEditKeepsCommit ==
  /\ [][\A p \in PollIds :
          (reply'.poll = p /\ reply'.notified = FALSE) =>
             LET k == <<polls[p].chat_id, polls[p].target_user_id>>
             IN /\ reply'.kind \in {"passed", "cancelled", "timed_out"} => polls'[p].closed = 1
                /\ reply'.kind = "timed_out" => polls'[p].expired = 1
                /\ reply'.kind = "passed" =>
                     /\ k \in DOMAIN scores'
                     /\ scores'[k] = (IF k \in DOMAIN scores THEN scores[k] ELSE 0) + 1]_vars
  /\ [](\A p \in PollIds :
          /\ ghost[p].outcome # "open" => polls[p].closed = 1
          /\ ghost[p].outcome = "passed" =>
               /\ <<polls[p].chat_id, polls[p].target_user_id>> \in DOMAIN scores
               /\ scores[<<polls[p].chat_id, polls[p].target_user_id>>] >= 1)

\* a poll was just passed and the edit of its message failed
C18_Witness ==
  /\ reply.kind = "passed"
  /\ reply.notified = FALSE
  /\ polls[reply.poll].closed = 1
  /\ scores[<<1, polls[reply.poll].target_user_id>>] = 1

\* the polls of chat c against u that were passed
PassedOn(c, u) ==
  {p \in PollIds : /\ polls[p].chat_id = c
                   /\ polls[p].target_user_id = u
                   /\ ghost[p].outcome = "passed"}

\* C19: without a seed import, the score of every user in a chat (0 when
\* there is no row) is the number of passed polls of the chat against that
\* user, and no score ever decreases or disappears.
C19_ScoreCountsPassedPolls ==
  /\ [](\A c \in Chats, u \in Users :
          (IF <<c, u>> \in DOMAIN scores THEN scores[<<c, u>>] ELSE 0)
             = Cardinality(PassedOn(c, u)))
  /\ [][\A k \in DOMAIN scores : k \in DOMAIN scores' /\ scores'[k] >= scores[k]]_vars

\* a user has score 2 after two passed polls, with rejected votes and
\* nominations in between
C19_Witness ==
  \E u \in Users :
    /\ <<1, u>> \in DOMAIN scores
    /\ scores[<<1, u>>] = 2
    /\ Cardinality(PassedOn(1, u)) = 2

\* every human on the roster of the poll's chat has a vote row on poll p
AllVoted(p) ==
  /\ HumansOf(polls[p].chat_id) # {}
  /\ \A r \in HumansOf(polls[p].chat_id) : VotedOn(p, r.user_id)

\* C20: a poll on which every one of the N >= 1 non-bot members of the chat
\* has cast an accepted vote is closed, as passed or cancelled: it is never
\* open once all members have voted.
C20_AllVotedResolves ==
  \A p \in PollIds :
    AllVoted(p) =>
      /\ polls[p].closed = 1
      /\ polls[p].expired = 0
      /\ ghost[p].outcome \in {"passed", "cancelled"}

\* three members, threshold 2: the third member's vote just resolved the poll
C20_Witness ==
  /\ reply.kind \in {"passed", "cancelled"}
  /\ reply.n = 2
  /\ reply.plus + reply.minus = 3
  /\ Cardinality(HumansOf(1)) = 3
  /\ AllVoted(reply.poll)

====
